---- MODULE Spec2Model ----
(***************************************************************************)
(* Hamiltonian-path decision procedures of Grafos2026:                     *)
(*   hp_bt.py  backtracking search (has_hamiltonian_path, is_connected)    *)
(*   hp_dp.py  subset dynamic programming (has_hamiltonian_path_dp)        *)
(*   parse_graph of both files (the text format reader)                    *)
(* The benchmark driver runs hp_bt.py and then hp_dp.py on one instance;   *)
(* Spec follows that order on every simple graph with at most MaxN         *)
(* vertices.  SpecOrd is the backtracking search with the neighbours of a  *)
(* vertex tried in any order.  SpecParse is parse_graph on small files.    *)
(***************************************************************************)
EXTENDS Integers, Sequences, FiniteSets

\* Largest vertex count of the graphs explored.
MaxN == 4
\* parse_graph: largest n of a header, most edge lines, largest |index|.
MaxParseN == 2
MaxLines == 2
MaxIdx == 2

VARIABLES
    n,            \* vertex count
    adj,          \* adjacency: [0..n-1 -> SUBSET 0..n-1]
    pc,           \* position in the solver being run
    visited,      \* hp_bt: visited marks (empty until allocated)
    calls,        \* hp_bt: dfs invocation counter
    neighbors,    \* hp_bt: per-vertex neighbour order
    start,        \* hp_bt: start-vertex loop variable
    stack,        \* hp_bt: dfs activation records, innermost last
    retval,       \* hp_bt: value the last dfs invocation returned
    retEntry,     \* history: visited at entry of the invocation that returned
    btResult,     \* hp_bt: verdict
    anyOrder,     \* TRUE when neighbour order is left open (SpecOrd)
    dp,           \* hp_dp: table [mask -> [v -> BOOLEAN]] (empty until allocated)
    states,       \* hp_dp: states counter
    transitions,  \* hp_dp: transitions counter
    mask,         \* hp_dp: outer loop variable
    dv,           \* hp_dp: middle loop variable v
    todo,         \* hp_dp: neighbours of v still to be examined
    flips,        \* history: false->true flips made by the transition loop
    processed,    \* history: masks whose processing has begun, in order
    dpResult,     \* hp_dp: verdict
    pn, pm,       \* parse_graph: header values
    plines,       \* parse_graph: the non-blank lines after the header
    pidx,         \* parse_graph: loop variable i
    padj,         \* parse_graph: adjacency under construction
    pstatus       \* parse_graph: "idle" | "loop" | "error" | "returned"

solverVars == <<n, adj, pc, visited, calls, neighbors, start, stack, retval,
                retEntry, btResult, anyOrder, dp, states, transitions, mask,
                dv, todo, flips, processed, dpResult>>
btVars == <<visited, calls, neighbors, start, stack, retval, retEntry, btResult>>
dpVars == <<dp, states, transitions, mask, dv, todo, flips, processed, dpResult>>
parseVars == <<pn, pm, plines, pidx, padj, pstatus>>
vars == <<solverVars, parseVars>>

----------------------------------------------------------------------------
(* Graphs *)

Vertices(k) == 0 .. (k - 1)

Pairs(k) == {e \in SUBSET Vertices(k) : Cardinality(e) = 2}

AdjOf(k, E) == [v \in Vertices(k) |-> {u \in Vertices(k) : {u, v} \in E}]

Empty == [x \in {} |-> FALSE]

Degree(a, v) == Cardinality(a[v])

Min(S) == CHOOSE x \in S : \A y \in S : x <= y

\* Iteration order of a Python set: for the non-negative ints below 8 that
\* the graphs explored here hold, CPython hashes each int to its own slot
\* and iterates the slots in ascending order, whatever the insertion order.
RECURSIVE SetIter(_)
SetIter(S) == IF S = {} THEN <<>>
              ELSE LET m == Min(S) IN <<m>> \o SetIter(S \ {m})

\* sorted(adj[v], key=lambda x: len(adj[x])): stable, so ties keep the
\* iteration order of the set.
RECURSIVE SortedByDegree(_, _)
SortedByDegree(S, a) ==
    IF S = {} THEN <<>>
    ELSE LET m == CHOOSE x \in S : \A y \in S :
                     \/ Degree(a, x) < Degree(a, y)
                     \/ Degree(a, x) = Degree(a, y) /\ x <= y
         IN <<m>> \o SortedByDegree(S \ {m}, a)

NeighborOrder(k, a) == [v \in Vertices(k) |-> SortedByDegree(a[v], a)]

RECURSIVE Unseen(_, _)
Unseen(s, seen) ==
    IF s = <<>> THEN <<>>
    ELSE IF Head(s) \in seen THEN Unseen(Tail(s), seen)
         ELSE <<Head(s)>> \o Unseen(Tail(s), seen \cup {Head(s)})

SeqRange(s) == {s[i] : i \in 1 .. Len(s)}

\* The while-loop of is_connected: returns the set of seen vertices.
RECURSIVE BfsLoop(_, _, _)
BfsLoop(q, seen, a) ==
    IF q = <<>> THEN seen
    ELSE LET v == Head(q)
             new == Unseen(SetIter(a[v]), seen)
         IN BfsLoop(Tail(q) \o new, seen \cup SeqRange(new), a)

\* is_connected with "return any(seen)" in place of "return all(seen)".
is_connected_any(k, a) ==
    IF k <= 1 THEN TRUE
    ELSE LET cands == {v \in Vertices(k) : a[v] # {}}
         IN IF cands = {} THEN FALSE
            ELSE BfsLoop(<<Min(cands)>>, {Min(cands)}, a) # {}

is_connected(k, a) ==
    IF k <= 1 THEN TRUE
    ELSE LET cands == {v \in Vertices(k) : a[v] # {}}
         IN IF cands = {} THEN FALSE
            ELSE BfsLoop(<<Min(cands)>>, {Min(cands)}, a) = Vertices(k)

\* The degree test with "<= 1" in place of "== 0".
HasIsolatedLeaf(k, a) == \E v \in Vertices(k) : Cardinality(a[v]) <= 1

\* any(len(adj[v]) == 0 for v in range(n))
HasIsolated(k, a) == \E v \in Vertices(k) : Cardinality(a[v]) = 0

----------------------------------------------------------------------------
(* Bit masks *)

Bit(m, v) == (m \div (2 ^ v)) % 2 = 1

\* next_mask with v typed for u: mask | (1 << v).
NextMaskTypo(m, v, u) == IF Bit(m, v) THEN m ELSE m + 2 ^ v

\* next_mask = mask | (1 << u), computed while vertex v of mask is extended
NextMask(m, v, u) == IF Bit(m, u) THEN m ELSE m + 2 ^ u

MaskSet(k, m) == {v \in Vertices(k) : Bit(m, v)}

----------------------------------------------------------------------------
(* Initial states *)

SolverIdle ==
    /\ n = 0 /\ adj = Empty /\ pc = "idle" /\ anyOrder = FALSE
    /\ visited = Empty /\ calls = 0 /\ neighbors = Empty /\ start = 0
    /\ stack = <<>> /\ retval = FALSE /\ retEntry = Empty /\ btResult = FALSE
    /\ dp = Empty /\ states = 0 /\ transitions = 0 /\ mask = 0 /\ dv = 0
    /\ todo = <<>> /\ flips = 0 /\ processed = <<>> /\ dpResult = FALSE

ParseIdle ==
    /\ pn = 0 /\ pm = 0 /\ plines = <<>> /\ pidx = 0 /\ padj = Empty
    /\ pstatus = "idle"

SolverInit(open) ==
    /\ n \in 0 .. MaxN
    /\ \E E \in SUBSET Pairs(n) : adj = AdjOf(n, E)
    /\ pc = "bt_entry" /\ anyOrder = open
    /\ visited = Empty /\ calls = 0 /\ neighbors = Empty /\ start = 0
    /\ stack = <<>> /\ retval = FALSE /\ retEntry = Empty /\ btResult = FALSE
    /\ dp = Empty /\ states = 0 /\ transitions = 0 /\ mask = 0 /\ dv = 0
    /\ todo = <<>> /\ flips = 0 /\ processed = <<>> /\ dpResult = FALSE

Init == SolverInit(FALSE) /\ ParseIdle

InitOrd == SolverInit(TRUE) /\ ParseIdle

----------------------------------------------------------------------------
(* hp_bt.py: has_hamiltonian_path *)

\* if n <= 1: return n == 1, 0
BtTrivial ==
    /\ pc = "bt_entry" /\ n <= 1
    /\ btResult' = (n = 1) /\ calls' = 0 /\ pc' = "bt_done"
    /\ UNCHANGED <<n, adj, anyOrder, visited, neighbors, start, stack, retval,
                   retEntry, dpVars, parseVars>>

\* if any(len(adj[v]) == 0 ...): return False, 0
BtIsolated ==
    /\ pc = "bt_entry" /\ n > 1 /\ HasIsolated(n, adj)
    /\ btResult' = FALSE /\ calls' = 0 /\ pc' = "bt_done"
    /\ UNCHANGED <<n, adj, anyOrder, visited, neighbors, start, stack, retval,
                   retEntry, dpVars, parseVars>>

\* if not is_connected(n, adj): return False, 0
BtDisconnected ==
    /\ pc = "bt_entry" /\ n > 1 /\ ~HasIsolated(n, adj)
    /\ ~is_connected(n, adj)
    /\ btResult' = FALSE /\ calls' = 0 /\ pc' = "bt_done"
    /\ UNCHANGED <<n, adj, anyOrder, visited, neighbors, start, stack, retval,
                   retEntry, dpVars, parseVars>>

\* visited = [False] * n; calls = 0; neighbors = [...]
BtSetup ==
    /\ pc = "bt_entry" /\ n > 1 /\ ~HasIsolated(n, adj)
    /\ is_connected(n, adj)
    /\ visited' = [v \in Vertices(n) |-> FALSE]
    /\ calls' = 0
    /\ neighbors' = NeighborOrder(n, adj)
    /\ start' = 0
    /\ pc' = "bt_start"
    /\ UNCHANGED <<n, adj, anyOrder, stack, retval, retEntry, btResult,
                   dpVars, parseVars>>

Frame(v, depth, vis) ==
    [v |-> v, depth |-> depth, todo |-> neighbors[v], cur |-> -1, entry |-> vis]

\* for start in range(n): visited[start] = True; dfs(start, 1)
BtStartCall ==
    /\ pc = "bt_start" /\ start < n
    /\ visited' = [visited EXCEPT ![start] = TRUE]
    /\ stack' = <<Frame(start, 1, visited')>>
    /\ pc' = "dfs_entry"
    /\ UNCHANGED <<n, adj, anyOrder, calls, neighbors, start, retval, retEntry,
                   btResult, dpVars, parseVars>>

\* return False, calls   (the start loop is exhausted)
BtReturnFalse ==
    /\ pc = "bt_start" /\ start >= n
    /\ btResult' = FALSE /\ pc' = "bt_done"
    /\ UNCHANGED <<n, adj, anyOrder, visited, calls, neighbors, start, stack,
                   retval, retEntry, dpVars, parseVars>>

Top == stack[Len(stack)]

Pop == SubSeq(stack, 1, Len(stack) - 1)

\* The depth test one short: depth == n - 1.
PathCompleteEarly(depth, k) == depth = k - 1

\* if depth == n
PathComplete(depth, k) == depth = k

\* calls += 1; if depth == n: return True
DfsEntry ==
    /\ pc = "dfs_entry"
    /\ calls' = calls + 1
    /\ IF PathComplete(Top.depth, n)
       THEN /\ retval' = TRUE /\ retEntry' = Top.entry
            /\ stack' = Pop /\ pc' = "dfs_ret"
       ELSE /\ pc' = "dfs_loop"
            /\ UNCHANGED <<retval, retEntry, stack>>
    /\ UNCHANGED <<n, adj, anyOrder, visited, neighbors, start, btResult,
                   dpVars, parseVars>>

\* Positions of the neighbour the loop may take next: the first one, or any
\* of them when the order is left open.
Picks(s) == IF anyOrder THEN 1 .. Len(s) ELSE {1} \cap (1 .. Len(s))

Without(s, k) == SubSeq(s, 1, k - 1) \o SubSeq(s, k + 1, Len(s))

\* for u in neighbors[v]: if not visited[u]: visited[u] = True; dfs(u, depth+1)
DfsLoopCall ==
    /\ pc = "dfs_loop"
    /\ \E k \in Picks(Top.todo) :
          LET u == Top.todo[k] IN
          /\ ~visited[u]
          /\ visited' = [visited EXCEPT ![u] = TRUE]
          /\ stack' = [stack EXCEPT ![Len(stack)] =
                          [@ EXCEPT !.todo = Without(Top.todo, k), !.cur = u]]
                      \o <<Frame(u, Top.depth + 1, visited')>>
          /\ pc' = "dfs_entry"
    /\ UNCHANGED <<n, adj, anyOrder, calls, neighbors, start, retval, retEntry,
                   btResult, dpVars, parseVars>>

\* for u in neighbors[v]: visited[u] is set, next u
DfsLoopSkip ==
    /\ pc = "dfs_loop"
    /\ \E k \in Picks(Top.todo) :
          LET u == Top.todo[k] IN
          /\ visited[u]
          /\ stack' = [stack EXCEPT ![Len(stack)] =
                          [@ EXCEPT !.todo = Without(Top.todo, k)]]
    /\ UNCHANGED <<n, adj, anyOrder, pc, visited, calls, neighbors, start,
                   retval, retEntry, btResult, dpVars, parseVars>>

\* return False   (the neighbour loop is exhausted)
DfsReturnFalse ==
    /\ pc = "dfs_loop" /\ Top.todo = <<>>
    /\ retval' = FALSE /\ retEntry' = Top.entry
    /\ stack' = Pop /\ pc' = "dfs_ret"
    /\ UNCHANGED <<n, adj, anyOrder, visited, calls, neighbors, start,
                   btResult, dpVars, parseVars>>

\* The backtracking step left out.
UnmarkNothing(vis, u) == vis

\* visited[u] = False, after the dfs called on u returned False
Unmark(vis, u) == [vis EXCEPT ![u] = FALSE]

\* in dfs: if dfs(u, depth + 1): return True
DfsPropagate ==
    /\ pc = "dfs_ret" /\ stack # <<>> /\ retval
    /\ retEntry' = Top.entry
    /\ stack' = Pop
    /\ UNCHANGED <<n, adj, anyOrder, pc, visited, calls, neighbors, start,
                   retval, btResult, dpVars, parseVars>>

\* in dfs: visited[u] = False, next u
DfsBacktrack ==
    /\ pc = "dfs_ret" /\ stack # <<>> /\ ~retval
    /\ visited' = Unmark(visited, Top.cur)
    /\ pc' = "dfs_loop"
    /\ UNCHANGED <<n, adj, anyOrder, calls, neighbors, start, stack, retval,
                   retEntry, btResult, dpVars, parseVars>>

\* in the start loop: if dfs(start, 1): return True, calls
BtReturnTrue ==
    /\ pc = "dfs_ret" /\ stack = <<>> /\ retval
    /\ btResult' = TRUE /\ pc' = "bt_done"
    /\ UNCHANGED <<n, adj, anyOrder, visited, calls, neighbors, start, stack,
                   retval, retEntry, dpVars, parseVars>>

\* in the start loop: visited[start] = False, next start
BtNextStart ==
    /\ pc = "dfs_ret" /\ stack = <<>> /\ ~retval
    /\ visited' = Unmark(visited, start)
    /\ start' = start + 1
    /\ pc' = "bt_start"
    /\ UNCHANGED <<n, adj, anyOrder, calls, neighbors, stack, retval, retEntry,
                   btResult, dpVars, parseVars>>

BtNext ==
    \/ BtTrivial \/ BtIsolated \/ BtDisconnected \/ BtSetup
    \/ BtStartCall \/ BtReturnFalse
    \/ DfsEntry \/ DfsLoopCall \/ DfsLoopSkip \/ DfsReturnFalse
    \/ DfsPropagate \/ DfsBacktrack \/ BtReturnTrue \/ BtNextStart

----------------------------------------------------------------------------
(* hp_dp.py: has_hamiltonian_path_dp *)

\* The states value of the early return with the test on n == 0.
TrivialStatesSwapped(k) == IF k = 0 THEN 1 ELSE 0

\* return n == 1, 1 if n == 1 else 0, 0
TrivialStates(k) == IF k = 1 THEN 1 ELSE 0

\* dp = [[False] * n ...]; for v in range(n): dp[1 << v][v] = True
SeededTable(k) ==
    [m \in 0 .. (2 ^ k - 1) |-> [v \in Vertices(k) |-> m = 2 ^ v]]

\* if not (mask & (1 << v)) or not dp[mask][v]: continue
SkipVertex(m, v) == ~Bit(m, v) \/ ~dp[m][v]

\* The membership test one bit off: mask & (1 << (u + 1)).
SkipNeighborShifted(m, u) == Bit(m, u + 1)

\* if mask & (1 << u): continue
SkipNeighbor(m, u) == Bit(m, u)

\* states += 1 moved out of the if.
CountStateAlways(s, wasSet) == s + 1

\* if not dp[next_mask][u]: ...; states += 1
CountState(s, wasSet) == IF wasSet THEN s ELSE s + 1

\* any(dp[full_mask][v] for v in range(n))
Verdict(k, table) == \E v \in Vertices(k) : table[2 ^ k - 1][v]

Flipped(old, new) ==
    {e \in (DOMAIN old) \X Vertices(n) : ~old[e[1]][e[2]] /\ new[e[1]][e[2]]}

DpTrivial ==
    /\ pc = "bt_done" /\ ~anyOrder /\ n <= 1
    /\ dpResult' = (n = 1)
    /\ states' = TrivialStates(n)
    /\ transitions' = 0
    /\ pc' = "dp_done"
    /\ UNCHANGED <<n, adj, anyOrder, btVars, dp, mask, dv, todo, flips,
                   processed, parseVars>>

\* lines 46-54: allocation, counters, seeds
DpSetup ==
    /\ pc = "bt_done" /\ ~anyOrder /\ n > 1
    /\ dp' = SeededTable(n)
    /\ states' = n
    /\ transitions' = 0
    /\ mask' = 0
    /\ pc' = "dp_mask"
    /\ UNCHANGED <<n, adj, anyOrder, btVars, dv, todo, flips, processed,
                   dpResult, parseVars>>

\* for mask in range(max_mask): the next mask is taken up
DpMask ==
    /\ pc = "dp_mask" /\ mask < 2 ^ n
    /\ processed' = Append(processed, mask)
    /\ dv' = 0
    /\ pc' = "dp_v"
    /\ UNCHANGED <<n, adj, anyOrder, btVars, dp, states, transitions, mask,
                   todo, flips, dpResult, parseVars>>

\* for v in range(n): exhausted, on to the next mask
DpMaskDone ==
    /\ pc = "dp_v" /\ dv = n
    /\ mask' = mask + 1
    /\ pc' = "dp_mask"
    /\ UNCHANGED <<n, adj, anyOrder, btVars, dp, states, transitions, dv,
                   todo, flips, processed, dpResult, parseVars>>

DpVertexSkip ==
    /\ pc = "dp_v" /\ dv < n /\ SkipVertex(mask, dv)
    /\ dv' = dv + 1
    /\ UNCHANGED <<n, adj, anyOrder, pc, btVars, dp, states, transitions,
                   mask, todo, flips, processed, dpResult, parseVars>>

\* for u in adj[v]: the iteration starts
DpVertex ==
    /\ pc = "dp_v" /\ dv < n /\ ~SkipVertex(mask, dv)
    /\ todo' = SetIter(adj[dv])
    /\ pc' = "dp_u"
    /\ UNCHANGED <<n, adj, anyOrder, btVars, dp, states, transitions, mask,
                   dv, flips, processed, dpResult, parseVars>>

DpNeighborSkip ==
    /\ pc = "dp_u" /\ todo # <<>> /\ SkipNeighbor(mask, Head(todo))
    /\ todo' = Tail(todo)
    /\ UNCHANGED <<n, adj, anyOrder, pc, btVars, dp, states, transitions,
                   mask, dv, flips, processed, dpResult, parseVars>>

\* lines 63-67: one transition attempt
DpTransition ==
    /\ pc = "dp_u" /\ todo # <<>> /\ ~SkipNeighbor(mask, Head(todo))
    /\ LET u == Head(todo)
           next_mask == NextMask(mask, dv, u)
       IN /\ transitions' = transitions + 1
          /\ dp' = [dp EXCEPT ![next_mask][u] = TRUE]
          /\ states' = CountState(states, dp[next_mask][u])
    /\ flips' = flips + Cardinality(Flipped(dp, dp'))
    /\ todo' = Tail(todo)
    /\ UNCHANGED <<n, adj, anyOrder, pc, btVars, mask, dv, processed,
                   dpResult, parseVars>>

\* for u in adj[v]: exhausted, on to the next v
DpVertexDone ==
    /\ pc = "dp_u" /\ todo = <<>>
    /\ dv' = dv + 1
    /\ pc' = "dp_v"
    /\ UNCHANGED <<n, adj, anyOrder, btVars, dp, states, transitions, mask,
                   todo, flips, processed, dpResult, parseVars>>

\* lines 69-70
DpReturn ==
    /\ pc = "dp_mask" /\ mask = 2 ^ n
    /\ dpResult' = Verdict(n, dp)
    /\ pc' = "dp_done"
    /\ UNCHANGED <<n, adj, anyOrder, btVars, dp, states, transitions, mask,
                   dv, todo, flips, processed, parseVars>>

DpNext ==
    \/ DpTrivial \/ DpSetup \/ DpMask \/ DpMaskDone \/ DpVertexSkip
    \/ DpVertex \/ DpNeighborSkip \/ DpTransition \/ DpVertexDone
    \/ DpReturn

Next == BtNext \/ DpNext

Spec == Init /\ [][Next]_vars

SpecOrd == InitOrd /\ [][BtNext]_vars

----------------------------------------------------------------------------
(* parse_graph (hp_bt.py and hp_dp.py carry the same text) *)

Indices == (0 - MaxIdx) .. MaxIdx

\* An edge line after split(): one or two integer tokens.
Lines == {<<a>> : a \in Indices} \cup {<<a, b>> : a, b \in Indices}

RECURSIVE SeqsUpTo(_, _)
SeqsUpTo(S, len) ==
    IF len = 0 THEN {<<>>}
    ELSE LET shorter == SeqsUpTo(S, len - 1)
         IN shorter \cup {Append(s, x) : s \in {t \in shorter : Len(t) = len - 1}, x \in S}

\* Python list subscript: lst[i] raises IndexError unless -len <= i < len.
IndexOk(i, len) == 0 - len <= i /\ i < len

\* Python list subscript: a negative i addresses lst[len + i].
IndexPos(i, len) == IF i < 0 THEN len + i ELSE i

InitParse ==
    /\ SolverIdle
    /\ pn \in 0 .. MaxParseN
    /\ pm \in 0 .. MaxLines
    /\ plines \in SeqsUpTo(Lines, MaxLines)
    /\ pidx = 0 /\ padj = Empty /\ pstatus = "start"

\* n, m = map(int, first); adj = [set() for _ in range(n)]
ParseHeader ==
    /\ pstatus = "start"
    /\ padj' = [v \in Vertices(pn) |-> {}]
    /\ pidx' = 1
    /\ pstatus' = "loop"
    /\ UNCHANGED <<solverVars, pn, pm, plines>>

\* raw_lines[i] does not exist (IndexError), or the line does not hold two
\* integers (ValueError from the unpacking)
ParseBadLine ==
    /\ pstatus = "loop" /\ pidx <= pm
    /\ \/ pidx > Len(plines)
       \/ pidx <= Len(plines) /\ Len(plines[pidx]) # 2
    /\ pstatus' = "error"
    /\ UNCHANGED <<solverVars, pn, pm, plines, pidx, padj>>

\* if v == u: continue
ParseSelfLoop ==
    /\ pstatus = "loop" /\ pidx <= pm /\ pidx <= Len(plines)
    /\ Len(plines[pidx]) = 2
    /\ plines[pidx][1] = plines[pidx][2]
    /\ pidx' = pidx + 1
    /\ UNCHANGED <<solverVars, pn, pm, plines, padj, pstatus>>

\* adj[v].add(u); adj[u].add(v)
ParseEdge ==
    /\ pstatus = "loop" /\ pidx <= pm /\ pidx <= Len(plines)
    /\ Len(plines[pidx]) = 2
    /\ LET v == plines[pidx][1]
           u == plines[pidx][2]
           first == [padj EXCEPT ![IndexPos(v, pn)] = @ \cup {u}]
       IN /\ v # u
          /\ IF ~IndexOk(v, pn)
             THEN pstatus' = "error" /\ UNCHANGED <<padj, pidx>>
             ELSE IF ~IndexOk(u, pn)
             THEN pstatus' = "error" /\ padj' = first /\ UNCHANGED pidx
             ELSE /\ padj' = [first EXCEPT ![IndexPos(u, pn)] = @ \cup {v}]
                  /\ pidx' = pidx + 1
                  /\ UNCHANGED pstatus
    /\ UNCHANGED <<solverVars, pn, pm, plines>>

\* return n, adj
ParseReturn ==
    /\ pstatus = "loop" /\ pidx > pm
    /\ pstatus' = "returned"
    /\ UNCHANGED <<solverVars, pn, pm, plines, pidx, padj>>

ParseNext ==
    \/ ParseHeader \/ ParseBadLine \/ ParseSelfLoop \/ ParseEdge
    \/ ParseReturn

SpecParse == InitParse /\ [][ParseNext]_vars

----------------------------------------------------------------------------
(* What the solvers are to decide, stated without either algorithm *)

RECURSIVE Perms(_)
Perms(S) ==
    IF S = {} THEN {<<>>}
    ELSE UNION {{<<x>> \o p : p \in Perms(S \ {x})} : x \in S}

IsPath(p, a) == \A i \in 1 .. (Len(p) - 1) : p[i + 1] \in a[p[i]]

\* Last vertices of the simple paths that visit exactly the vertices of S.
PathEnds(S, a) == {p[Len(p)] : p \in {q \in Perms(S) : q # <<>> /\ IsPath(q, a)}}

HamiltonianPathExists(k, a) == k >= 1 /\ PathEnds(Vertices(k), a) # {}

\* Two or more connected components: some proper non-empty part is closed
\* under adjacency.
Disconnected(k, a) ==
    \E S \in SUBSET Vertices(k) :
        S # {} /\ S # Vertices(k) /\ \A v \in S : a[v] \subseteq S

BtReturned == pc \in {"bt_done", "dp_mask", "dp_v", "dp_u", "dp_done"}

InDpLoop == pc \in {"dp_mask", "dp_v", "dp_u"}

TrueEntries(table) ==
    {e \in (DOMAIN table) \X Vertices(n) : table[e[1]][e[2]]}

StrictSubmask(s, m) ==
    s # m /\ \A v \in Vertices(n) : Bit(s, v) => Bit(m, v)

----------------------------------------------------------------------------
(* Claims *)

\* C1: on every simple graph (n = 0 and n = 1 included) the backtracking
\* solver and the subset-DP solver return the same boolean verdict.
C1_Agreement == pc = "dp_done" => btResult = dpResult

C1_Witness ==
    /\ pc = "dp_done" /\ n >= 4
    /\ ~btResult /\ ~dpResult /\ calls > 0 /\ transitions > 0

\* C2: for n >= 2, when the main loop of the DP has finished, dp[mask][v] is
\* true exactly when v is in mask and a simple path visits exactly the
\* vertices of mask and ends at v; the verdict returned is true exactly when
\* the graph has a Hamiltonian path.
C2_TableCorrect ==
    /\ (n >= 2 /\ (pc = "dp_done" \/ (pc = "dp_mask" /\ mask = 2 ^ n))) =>
           \A m \in DOMAIN dp : \A v \in Vertices(n) :
               dp[m][v] <=> (Bit(m, v) /\ v \in PathEnds(MaskSet(n, m), adj))
    /\ (n >= 2 /\ pc = "dp_done") =>
           (dpResult <=> HamiltonianPathExists(n, adj))

C2_Witness ==
    /\ pc = "dp_done" /\ n >= 4 /\ dpResult
    /\ \E m \in DOMAIN dp : \E v, w \in Vertices(n) :
           Bit(m, v) /\ Bit(m, w) /\ ~dp[m][v] /\ dp[m][w]

\* C3: for a graph with n > 1 in two or more connected components the
\* backtracking solver never invokes dfs (calls stays 0, no activation
\* record exists) and it returns False.
C3_DisconnectedRejected ==
    (n > 1 /\ Disconnected(n, adj)) =>
        /\ calls = 0 /\ stack = <<>>
        /\ BtReturned => ~btResult

C3_Witness ==
    /\ BtReturned /\ n > 1 /\ Disconnected(n, adj) /\ ~HasIsolated(n, adj)
    /\ ~btResult /\ calls = 0

\* C4 as stated: for n = 1 both solvers say yes with zero work units, the DP
\* with states = 0 and transitions = 0.
C4_ZeroStates ==
    (pc = "dp_done" /\ n = 1) =>
        /\ btResult /\ calls = 0
        /\ dpResult /\ states = 0 /\ transitions = 0

\* C4 amended: for n = 1 both solvers say yes; the backtracking solver with
\* calls = 0, the DP with states = 1 (the one singleton seed) and
\* transitions = 0.
C4_OneState ==
    (pc = "dp_done" /\ n = 1) =>
        /\ btResult /\ calls = 0
        /\ dpResult /\ states = 1 /\ transitions = 0

C4_Witness == pc = "dp_done" /\ n = 1 /\ dpResult /\ btResult

\* C5: for n >= 2, throughout the transition loop and at return, states is n
\* plus the number of false-to-true flips made by the loop, which is the
\* number of true entries of dp, and transitions >= states - n.
C5_Counters ==
    (n >= 2 /\ (InDpLoop \/ pc = "dp_done")) =>
        /\ states = n + flips
        /\ states = Cardinality(TrueEntries(dp))
        /\ transitions >= states - n

C5_Witness ==
    /\ pc = "dp_u" /\ flips > 0
    /\ transitions > states - n

\* C6: parse_graph returns a graph only if every one of the m edge lines
\* names indices in [0, n), and the adjacency it returns holds only indices
\* in [0, n) and is symmetric.
C6_ParseRejects ==
    pstatus = "returned" =>
        /\ \A i \in 1 .. pm : \A j \in 1 .. 2 : plines[i][j] \in Vertices(pn)
        /\ \A v \in Vertices(pn) :
               /\ padj[v] \subseteq Vertices(pn)
               /\ \A u \in padj[v] : v \in padj[u]

\* C7: when an invocation of dfs returns False, visited equals its value at
\* the entry of that invocation; and each time the start loop has unmarked
\* a failed start vertex, every entry of visited is False.
C7_FailureRestores ==
    /\ (pc = "dfs_ret" /\ ~retval) => visited = retEntry
    /\ (pc = "bt_start" /\ start > 0) => \A v \in Vertices(n) : ~visited[v]

C7_Witness ==
    /\ pc = "dfs_ret" /\ ~retval /\ stack = <<>> /\ calls >= 3
    /\ \E v \in Vertices(n) : v # start /\ ~visited[v]

\* C8 as stated: when has_hamiltonian_path returns True every entry of
\* visited is False again.
C8_SuccessRestores ==
    (BtReturned /\ btResult) => \A v \in DOMAIN visited : ~visited[v]

\* C8 amended: the marks are restored on the failing return paths only.
\* When has_hamiltonian_path returns False every entry of visited is False;
\* when it returns True out of the search (n >= 2) every entry of visited is
\* True, the marks of the path found being left in place.
C8_SuccessKeepsMarks ==
    /\ (BtReturned /\ ~btResult) => \A v \in DOMAIN visited : ~visited[v]
    /\ (BtReturned /\ btResult /\ n >= 2) =>
           /\ DOMAIN visited = Vertices(n)
           /\ \A v \in Vertices(n) : visited[v]

C8_Witness ==
    /\ BtReturned /\ btResult /\ n >= 3 /\ calls > n
    /\ \A v \in Vertices(n) : visited[v]

\* C9: in the main loop of the DP the masks are taken in ascending order,
\* every table write made while a mask is processed goes to a strictly
\* larger mask, a mask is taken up only after all its strict submasks, and
\* no row of a mask whose processing has begun changes afterwards.
C9_AscendingMasks ==
    [][InDpLoop =>
        /\ mask' >= mask
        /\ \A m \in DOMAIN dp :
               dp'[m] # dp[m] => (m > mask /\ m \notin SeqRange(processed'))
        /\ processed' # processed =>
               /\ processed' = Append(processed, mask)
               /\ \A m \in SeqRange(processed) : m < mask
               /\ \A s \in DOMAIN dp :
                      StrictSubmask(s, mask) => s \in SeqRange(processed)
      ]_vars

C9_Witness ==
    /\ pc = "dp_u" /\ Len(processed) > 3 /\ flips > 0
    /\ \E s \in SeqRange(processed) : StrictSubmask(s, mask) /\ s # 0

\* C10: whatever order the neighbours of each vertex are tried in, the
\* verdict of has_hamiltonian_path is the same: it is the answer to whether
\* the graph has a Hamiltonian path, which no ordering enters.
C10_OrderIndependent ==
    pc = "bt_done" => (btResult <=> HamiltonianPathExists(n, adj))

\* A graph on which the number of calls depends on the order tried: the
\* triangle 0-1-2 with the pendant vertex 3 on 2.  In the order of the code
\* the first descent 0, 1, 2, 3 succeeds with calls = 4.
C10_Witness ==
    /\ pc = "bt_done" /\ anyOrder
    /\ n = 4 /\ adj = AdjOf(4, {{0, 1}, {0, 2}, {1, 2}, {2, 3}})
    /\ btResult /\ calls > 4

====
